---- MODULE Spec2Model ----
(***************************************************************************)
(* ULVA Auto-MTO estimator (src/ulva_auto_mto_extractor.py): the fitting   *)
(* and cut-list scans of a document's text, the per-component quantity     *)
(* formulas, and the per-document / per-run totals.                        *)
(*                                                                         *)
(* Text is a sequence of one-character strings.  A length, area or bead    *)
(* quantity is kept exactly as a record [u, p] standing for                *)
(*        u/100  +  p * pi/40000      (metres or square metres)            *)
(* so that sums are exact; pi only enters when the code rounds or takes a  *)
(* ceiling (FloorPi).                                                      *)
(***************************************************************************)
EXTENDS Integers, Sequences, FiniteSets, TLC

(* ------------------------------ constants ------------------------------ *)
DEFAULT_THK == 20
MIN_THK == 5
MAX_THK == 300
\* LAP = 0.05 m, in hundredths of a metre
LAP == 5
TUBE_COVER_M == 6
\* BOND_STRIP_W = 0.1 m, held as its reciprocal: x * 0.1 = x / 10
BOND_STRIP_W_INV == 10
DN_COLLAR == 250
\* RATE_CLAMP = 24.00, in pence
RATE_CLAMP == 2400

\* OD lookup, in tenths of a millimetre; OD.get(dn, dn) falls back to dn itself.
OD(dn) ==
    CASE dn = 15 -> 213 [] dn = 20 -> 269 [] dn = 25 -> 337 [] dn = 32 -> 424
      [] dn = 40 -> 483 [] dn = 50 -> 603 [] dn = 65 -> 761 [] dn = 80 -> 889
      [] dn = 90 -> 1016 [] dn = 100 -> 1143 [] dn = 125 -> 1413
      [] dn = 150 -> 1683 [] dn = 200 -> 2191 [] dn = 250 -> 2730
      [] dn = 300 -> 3239 [] dn = 350 -> 3556 [] dn = 400 -> 4064
      [] dn = 450 -> 4570 [] dn = 500 -> 5080 [] dn = 600 -> 6100
      [] OTHER -> 10 * dn

(* ------------------------------ bounds --------------------------------- *)
\* documents in a run, and text lines over all documents of a run
MaxDocs == 2
MaxLines == 3
\* text lines of the single document of a scan run
MaxScanLines == 2

(* ------------------------------ characters ----------------------------- *)
Digits == <<"0", "1", "2", "3", "4", "5", "6", "7", "8", "9">>
UpperCase == <<"A","B","C","D","E","F","G","H","I","J","K","L","M",
               "N","O","P","Q","R","S","T","U","V","W","X","Y","Z">>
LowerCase == <<"a","b","c","d","e","f","g","h","i","j","k","l","m",
               "n","o","p","q","r","s","t","u","v","w","x","y","z">>

IsDigit(c) == \E i \in 1..10 : Digits[i] = c
DigitVal(c) == (CHOOSE i \in 1..10 : Digits[i] = c) - 1
IsSpace(c) == c \in {" ", "\n", "\t"}

\* str.lower(), one character
LowerChar(c) ==
    IF \E i \in 1..26 : UpperCase[i] = c
    THEN LowerCase[CHOOSE i \in 1..26 : UpperCase[i] = c]
    ELSE c
\* str.lower()
Lower(s) == [i \in 1..Len(s) |-> LowerChar(s[i])]

\* sub in s
Contains(sub, s) ==
    \E i \in 1..(Len(s) - Len(sub) + 1) : SubSeq(s, i, i + Len(sub) - 1) = sub

\* int() of a digit string
RECURSIVE ToInt(_)
ToInt(ds) ==
    IF ds = <<>> THEN 0
    ELSE 10 * ToInt(SubSeq(ds, 1, Len(ds) - 1)) + DigitVal(ds[Len(ds)])

\* number of consecutive characters from position i on that are digits
RECURSIVE DigitRun(_, _)
DigitRun(s, i) ==
    IF i <= Len(s) /\ IsDigit(s[i]) THEN 1 + DigitRun(s, i + 1) ELSE 0
\* number of consecutive characters from position i on that are whitespace
RECURSIVE SpaceRun(_, _)
SpaceRun(s, i) ==
    IF i <= Len(s) /\ IsSpace(s[i]) THEN 1 + SpaceRun(s, i + 1) ELSE 0

\* re.findall(r"(\d{2,3})", s), scanning from position i: greedy,
\* non-overlapping, left to right
RECURSIVE FindNums(_, _)
FindNums(s, i) ==
    IF i > Len(s) THEN <<>>
    ELSE LET r == DigitRun(s, i) IN
         IF r >= 2
         THEN LET n == IF r >= 3 THEN 3 ELSE 2 IN
              <<ToInt(SubSeq(s, i, i + n - 1))>> \o FindNums(s, i + n)
         ELSE FindNums(s, i + 1)
FindAll(s) == FindNums(s, 1)

\* str.splitlines()
RECURSIVE Splitlines(_)
Splitlines(s) ==
    IF s = <<>> THEN <<>>
    ELSE IF \E i \in 1..Len(s) : s[i] = "\n"
         THEN LET p == CHOOSE i \in 1..Len(s) :
                          s[i] = "\n" /\ \A j \in 1..(i - 1) : s[j] # "\n" IN
              <<SubSeq(s, 1, p - 1)>> \o Splitlines(SubSeq(s, p + 1, Len(s)))
         ELSE <<s>>

\* One match of cut_rx = <\d+>\s+(\d{2,5})\s+(\d{2,3}) starting at position i:
\* <<>> when there is none, else <<position after the match, length_mm, dn>>.
\* Each run is taken greedily; giving characters back never helps, because the
\* piece that follows a run cannot start with a character of that run, except
\* for the last group, which takes at most three digits.
CutAt(s, i) ==
    IF i > Len(s) \/ s[i] # "<" THEN <<>>
    ELSE LET d0 == DigitRun(s, i + 1)
             j1 == i + 1 + d0
             w1 == SpaceRun(s, j1 + 1)
             j2 == j1 + 1 + w1
             d1 == DigitRun(s, j2)
             j3 == j2 + d1
             w2 == SpaceRun(s, j3)
             j4 == j3 + w2
             d2 == DigitRun(s, j4)
             n2 == IF d2 >= 3 THEN 3 ELSE 2
         IN IF /\ d0 >= 1
               /\ j1 <= Len(s) /\ s[j1] = ">"
               /\ w1 >= 1
               /\ d1 >= 2 /\ d1 <= 5
               /\ w2 >= 1
               /\ d2 >= 2
            THEN <<j4 + n2, ToInt(SubSeq(s, j2, j3 - 1)),
                   ToInt(SubSeq(s, j4, j4 + n2 - 1))>>
            ELSE <<>>

\* cut_rx.findall(txt) from position i, as (int(l), int(dn)) pairs
RECURSIVE CutsFrom(_, _)
CutsFrom(s, i) ==
    IF i > Len(s) THEN <<>>
    ELSE LET m == CutAt(s, i) IN
         IF m = <<>> THEN CutsFrom(s, i + 1)
         ELSE << <<m[2], m[3]>> >> \o CutsFrom(s, m[1])
parse_cuts(s) == CutsFrom(s, 1)

(* ------------------------------ cue words ------------------------------ *)
cue_45 == <<"4", "5">>
cue_90 == <<"9", "0">>
cue_elbow == <<"e", "l", "b", "o", "w">>
cue_tee == <<" ", "t", "e", "e">>
cue_flange == <<"f", "l", "a", "n", "g", "e">>
cue_valve == <<"v", "a", "l", "v", "e">>
cue_weldolet == <<"w", "e", "l", "d", "o", "l", "e", "t">>
cue_threadolet == <<"t", "h", "r", "e", "a", "d", "o", "l", "e", "t">>
cue_clamp == <<"c", "l", "a", "m", "p">>

\* re.search(r"(\d{2,3})", ln).group(1) raises AttributeError when
\* re.search returns None
NoMatch(ln) == FindAll(ln) = <<>>
FirstNum(ln) == FindAll(ln)[1]

\* the collar threshold taken inclusively
IsCollar_Le(dn) == dn <= DN_COLLAR

\* line 91: if dn < DN_COLLAR
IsCollar(dn) == dn < DN_COLLAR

\* a last branch for reducers: 'reducer' in l with two numbers appends
\* ('Reducer', first, second)
NoCue_Reducer(ln) ==
    IF /\ Contains(<<"r", "e", "d", "u", "c", "e", "r">>, Lower(ln))
       /\ Len(FindAll(ln)) >= 2
    THEN [raised |-> FALSE,
          new |-> << <<"Reducer", FindAll(ln)[1], FindAll(ln)[2]>> >>]
    ELSE [raised |-> FALSE, new |-> <<>>]

\* lines 92-94: a line that no branch of the chain takes appends nothing
NoCue(ln) == [raised |-> FALSE, new |-> <<>>]

\* One pass of the loop body of parse_fittings over the line ln:
\* [raised |-> the body raises AttributeError, new |-> the items it appends].
ScanOne(ln) ==
    LET l == Lower(ln)
        none == [raised |-> FALSE, new |-> <<>>]
        one(typ) == IF NoMatch(ln)
                    THEN [raised |-> TRUE, new |-> <<>>]
                    ELSE [raised |-> FALSE, new |-> << <<typ, FirstNum(ln)>> >>]
    IN IF Contains(cue_45, l) /\ Contains(cue_elbow, l) THEN one("Elbow45")
       ELSE IF Contains(cue_90, l) /\ Contains(cue_elbow, l) THEN one("Elbow90")
       ELSE IF Contains(cue_tee, l)
            THEN LET dns == FindAll(ln) IN
                 IF Len(dns) >= 2
                 THEN [raised |-> FALSE,
                       new |-> << <<IF dns[1] = dns[2] THEN "EqualTee"
                                    ELSE "UnequalTee", dns[1], dns[2]>> >>]
                 ELSE none
       ELSE IF Contains(cue_flange, l) \/ Contains(cue_valve, l) THEN one("EndCap")
       ELSE IF Contains(cue_weldolet, l) \/ Contains(cue_threadolet, l)
            THEN IF NoMatch(ln) THEN [raised |-> TRUE, new |-> <<>>]
                 ELSE IF IsCollar(FirstNum(ln)) THEN one("Collar")
                 ELSE none
       ELSE IF Contains(cue_clamp, l) THEN one("ClampCover")
       ELSE NoCue(ln)

(* ------------------------------ input text ----------------------------- *)
\* Lines of extracted document text, as sequences of characters.
\* "<1> 3250 100"
ln_cut ==
    <<"<", "1", ">", " ", "3", "2", "5", "0", " ", "1", "0", "0">>
\* "90 ELBOW"
ln_elbow90 ==
    <<"9", "0", " ", "E", "L", "B", "O", "W">>
\* "dn 100 tee 50"
ln_tee ==
    <<"d", "n", " ", "1", "0", "0", " ", "t", "e", "e", " ", "5", "0">>
\* "flange 50"
ln_flange ==
    <<"f", "l", "a", "n", "g", "e", " ", "5", "0">>
\* "clamp 150"
ln_clamp ==
    <<"c", "l", "a", "m", "p", " ", "1", "5", "0">>
\* ""
ln_empty ==
    <<>>
\* "ELBOW 45 90"
ln_elbow_both ==
    <<"E", "L", "B", "O", "W", " ", "4", "5", " ", "9", "0">>
\* "elbow 90 dn 450"
ln_elbow450 ==
    <<"e", "l", "b", "o", "w", " ", "9", "0", " ", "d", "n", " ", "4", "5", "0">>
\* "dn 50 tee 50"
ln_tee_equal ==
    <<"d", "n", " ", "5", "0", " ", "t", "e", "e", " ", "5", "0">>
\* "eq tee 100"
ln_tee_one ==
    <<"e", "q", " ", "t", "e", "e", " ", "1", "0", "0">>
\* "tee 100 50"
ln_tee_first ==
    <<"t", "e", "e", " ", "1", "0", "0", " ", "5", "0">>
\* "eq tee"
ln_tee_none ==
    <<"e", "q", " ", "t", "e", "e">>
\* "reducer 100 50"
ln_reducer ==
    <<"r", "e", "d", "u", "c", "e", "r", " ", "1", "0", "0", " ", "5", "0">>
\* "clamp reducer 100 50"
ln_reducer_clamp ==
    <<"c", "l", "a", "m", "p", " ", "r", "e", "d", "u", "c", "e", "r", " ", "1", "0", "0", " ", "5", "0">>
\* "valve"
ln_valve_none ==
    <<"v", "a", "l", "v", "e">>
\* "weldolet 200"
ln_weldolet ==
    <<"w", "e", "l", "d", "o", "l", "e", "t", " ", "2", "0", "0">>
\* "Weldolet 250"
ln_weldolet250 ==
    <<"W", "e", "l", "d", "o", "l", "e", "t", " ", "2", "5", "0">>
\* "threadolet 300"
ln_threadolet300 ==
    <<"t", "h", "r", "e", "a", "d", "o", "l", "e", "t", " ", "3", "0", "0">>
\* "weldolet"
ln_weldolet_none ==
    <<"w", "e", "l", "d", "o", "l", "e", "t">>
\* "clamp"
ln_clamp_none ==
    <<"c", "l", "a", "m", "p">>
\* "clamp 5"
ln_clamp_digit ==
    <<"c", "l", "a", "m", "p", " ", "5">>
\* "clamp 1200"
ln_clamp1200 ==
    <<"c", "l", "a", "m", "p", " ", "1", "2", "0", "0">>

RunLines == {ln_cut, ln_elbow90, ln_tee, ln_clamp}
ScanLines ==
    RunLines \cup
    {ln_flange, ln_empty, ln_elbow_both, ln_elbow450,
     ln_tee_equal, ln_tee_one, ln_tee_first, ln_tee_none,
     ln_reducer, ln_reducer_clamp, ln_valve_none, ln_weldolet,
     ln_weldolet250, ln_threadolet300, ln_weldolet_none, ln_clamp_none,
     ln_clamp_digit, ln_clamp1200}

\* '\n'.join(...)
RECURSIVE JoinNL(_)
JoinNL(ls) ==
    IF ls = <<>> THEN <<>>
    ELSE IF Len(ls) = 1 THEN ls[1]
    ELSE ls[1] \o <<"\n">> \o JoinNL(Tail(ls))

LineSeqs(S, k) == UNION {[1..j -> S] : j \in 0..k}

\* The documents of a run: at most MaxDocs texts holding at most MaxLines
\* lines of RunLines between them (a[i] is the document of line i).
Runs ==
    {[j \in 1..d |->
        JoinNL([i \in 1..Cardinality({x \in DOMAIN a : a[x] = j}) |->
                   ls[i + Cardinality({x \in DOMAIN a : a[x] < j})]])] :
       <<d, ls, a>> \in
         {t \in UNION {UNION {{d} \X {ls} \X [1..Len(ls) -> 1..d] :
                                 ls \in LineSeqs(RunLines, MaxLines)} :
                          d \in 0..MaxDocs} :
            \A x, y \in DOMAIN t[3] : x <= y => t[3][x] <= t[3][y]}}

\* A run over one document of at most MaxScanLines lines of ScanLines.
ScanRuns == {<<JoinNL(ls)>> : ls \in LineSeqs(ScanLines, MaxScanLines)}

\* args.thickness as given on the command line
ThicknessArgs == {MIN_THK - 1, DEFAULT_THK, MAX_THK + 1}

(* ------------------------------ state ---------------------------------- *)
VARIABLES
    pc,          \* where the program is
    thickness,   \* args.thickness
    INS_THK,     \* module global, set once the thickness is accepted
    pdfs,        \* main: the documents' texts, in glob order
    n,           \* main: index in pdfs of the document being processed
    all_str, all_fits, all_sum,               \* main
    txt,                                      \* process_pdf
    cuts, ci,                                 \* process_pdf: straights loop
    straights, fits, total_clad, bond_len, bead_sum,
    lines, li, items,                         \* parse_fittings
    fi                                        \* process_pdf: fittings loop

vars == <<pc, thickness, INS_THK, pdfs, n, all_str, all_fits, all_sum, txt,
          cuts, ci, straights, fits, total_clad, bond_len, bead_sum,
          lines, li, items, fi>>

(* ------------------------------ quantities ----------------------------- *)
QZero == [u |-> 0, p |-> 0]
QAdd(a, b) == [u |-> a.u + b.u, p |-> a.p + b.p]
QTimes(k, a) == [u |-> k * a.u, p |-> k * a.p]
\* a whole number of metres
QMetres(k) == [u |-> 100 * k, p |-> 0]

\* floor(k * pi) for 0 <= k < 231000, with pi = 3.141592653589...
FloorPi(k) ==
    3 * k + (k * 1415 + (k * 9265 + (k * 3589) \div 10000) \div 10000) \div 10000

\* round(q, 2) in hundredths, round(q, 3) in thousandths.  With p > 0 the
\* value is irrational, so no tie arises; with p = 0 it is a whole number of
\* hundredths.
Round2(q) == q.u + (FloorPi(q.p) + 200) \div 400
Round3(q) == 10 * q.u + (FloorPi(q.p) + 20) \div 40

\* ceil(q / d) for a whole number d of metres
CeilDiv(q, d) ==
    IF q.p = 0 THEN (400 * q.u + 40000 * d - 1) \div (40000 * d)
    ELSE (400 * q.u + FloorPi(q.p)) \div (40000 * d) + 1

\* OD.get(dn, dn) + 2*INS_THK, in tenths of a millimetre
InsulatedOD(dn) == OD(dn) + 20 * INS_THK
circ_m(dn) == [u |-> 0, p |-> 4 * InsulatedOD(dn)]

\* arc = (angle/360)*2*pi*(OD.get(dn,dn)+2*INS_THK)/1000
ElbowArc(angle, dn) == [u |-> 0, p |-> (angle * InsulatedOD(dn)) \div 45]

Keys == {"Elbow45", "Elbow90", "EqualTee", "UnequalTee", "EndCap", "Collar",
         "ClampCover"}

\* ceil(Lmm/1000)
CeilM(Lmm) == (Lmm + 999) \div 1000

\* The accumulators of process_pdf as one record.
Acc == [total_clad |-> total_clad, bond_len |-> bond_len, bead_sum |-> bead_sum]
AccZero == [total_clad |-> QZero, bond_len |-> QZero, bead_sum |-> QZero]

\* a straights loop that sets bond_len to the cut's share instead of adding it
AddStraight_Assign(acc, cut) ==
    LET L == CeilM(cut[1])
        C == circ_m(cut[2])
        clad_m2 == [u |-> LAP * L, p |-> L * C.p]
        bead == QAdd(QMetres(L), QTimes(2, C))
    IN [total_clad |-> QAdd(acc.total_clad, clad_m2),
        bond_len |-> QAdd(QMetres(L), C),
        bead_sum |-> QAdd(acc.bead_sum, bead)]

\* Body of the straights loop: the accumulators after the cut <<Lmm, dn>>.
AddStraight(acc, cut) ==
    LET L == CeilM(cut[1])
        C == circ_m(cut[2])
        clad_m2 == [u |-> LAP * L, p |-> L * C.p]
        bead == QAdd(QMetres(L), QTimes(2, C))
    IN [total_clad |-> QAdd(acc.total_clad, clad_m2),
        bond_len |-> QAdd(acc.bond_len, QAdd(QMetres(L), C)),
        bead_sum |-> QAdd(acc.bead_sum, bead)]

\* The row the straights loop appends (Shield cost column left out).
StraightRow(name, cut) ==
    LET L == CeilM(cut[1])
        C == circ_m(cut[2])
    IN [PDF |-> name, DN |-> cut[2], Length_m |-> L, Circ_m |-> Round3(C),
        Clad_m2 |-> Round3([u |-> LAP * L, p |-> L * C.p]),
        Bead_m |-> Round3(QAdd(QMetres(L), QTimes(2, C)))]

\* int(key[5:])
ElbowAngle(key) == IF key = "Elbow45" THEN 45 ELSE 90

\* lines 115-118: an elbow
AddElbow(acc, item) ==
    LET arc == ElbowArc(ElbowAngle(item[1]), item[2]) IN
    [acc EXCEPT !.bead_sum = QAdd(@, arc), !.bond_len = QAdd(@, QTimes(2, arc))]

\* lines 120-123: a tee
AddTee(acc, item) ==
    LET bead == QAdd(QTimes(2, circ_m(item[2])), circ_m(item[3])) IN
    [acc EXCEPT !.bead_sum = QAdd(@, bead), !.bond_len = QAdd(@, bead)]

\* an end cap that overwrites the sums instead of adding to them
AddCap_Assign(acc, item) ==
    LET b == circ_m(item[2]) IN
    [acc EXCEPT !.bead_sum = b, !.bond_len = b]

\* lines 125-127: an end cap or a collar
AddCap(acc, item) ==
    LET b == circ_m(item[2]) IN
    [acc EXCEPT !.bead_sum = QAdd(@, b), !.bond_len = QAdd(@, b)]

\* a clamp cover whose DN is added to the bond length: dn in place of dn*0
AddClamp_Dn(acc, item) ==
    [acc EXCEPT !.bond_len = QAdd(@, QMetres(item[2]))]

\* lines 129-130: a clamp cover; bond_len += dn*0
AddClamp(acc, item) ==
    [acc EXCEPT !.bond_len = QAdd(@, QMetres(item[2] * 0))]

\* Body of the fittings loop: the accumulators after item.
AddFitting(acc, item) ==
    LET key == item[1] IN
    IF key \in {"Elbow45", "Elbow90"} THEN AddElbow(acc, item)
    ELSE IF key \in {"EqualTee", "UnequalTee"} THEN AddTee(acc, item)
    ELSE IF key \in {"EndCap", "Collar"} THEN AddCap(acc, item)
    ELSE IF key = "ClampCover" THEN AddClamp(acc, item)
    ELSE acc

\* The row the fittings loop appends to fits[key].
FittingRow(name, item) ==
    LET key == item[1] IN
    IF key \in {"Elbow45", "Elbow90"}
    THEN [PDF |-> name, DN |-> item[2],
          Bead_m |-> Round3(ElbowArc(ElbowAngle(key), item[2]))]
    ELSE IF key \in {"EqualTee", "UnequalTee"}
    THEN [PDF |-> name, DN_main |-> item[2], DN_branch |-> item[3],
          Bead_m |-> Round3(QAdd(QTimes(2, circ_m(item[2])), circ_m(item[3])))]
    ELSE IF key \in {"EndCap", "Collar"}
    THEN [PDF |-> name, DN |-> item[2], Bead_m |-> Round3(circ_m(item[2]))]
    ELSE [PDF |-> name, DN |-> item[2], Clamp |-> RATE_CLAMP]

\* The summary process_pdf returns: Clad_m2 and Bead_m in hundredths.
Summary(acc) ==
    [Clad_m2 |-> Round2(acc.total_clad),
     Bead_m |-> Round2(acc.bead_sum),
     Tubes |-> CeilDiv(acc.bead_sum, TUBE_COVER_M),
     Bond_tins |-> CeilDiv(acc.bond_len, BOND_STRIP_W_INV * 2)]

SumZero == [Clad_m2 |-> 0, Bead_m |-> 0, Tubes |-> 0, Bond_tins |-> 0]
\* for k in all_sum: all_sum[k] += sm[k]
AddSummary(a, sm) ==
    [Clad_m2 |-> a.Clad_m2 + sm.Clad_m2, Bead_m |-> a.Bead_m + sm.Bead_m,
     Tubes |-> a.Tubes + sm.Tubes, Bond_tins |-> a.Bond_tins + sm.Bond_tins]

(* ------------------------------ the program ---------------------------- *)
NoFits == [k \in Keys |-> <<>>]

Init ==
    /\ pc = "cli"
    /\ thickness \in ThicknessArgs
    /\ INS_THK = 0
    /\ pdfs = <<>> /\ n = 0
    /\ all_str = <<>> /\ all_fits = NoFits /\ all_sum = SumZero
    /\ txt = <<>>
    /\ cuts = <<>> /\ ci = 0
    /\ straights = <<>> /\ fits = NoFits
    /\ total_clad = QZero /\ bond_len = QZero /\ bead_sum = QZero
    /\ lines = <<>> /\ li = 0 /\ items = <<>>
    /\ fi = 0

\* the accumulators and rows of process_pdf
pdfVars == <<txt, cuts, ci, straights, fits, total_clad, bond_len, bead_sum,
             lines, li, items, fi>>
mainVars == <<pdfs, n, all_str, all_fits, all_sum>>

\* lines 62-64, thickness out of range: sys.exit
RejectThickness ==
    /\ pc = "cli"
    /\ thickness < MIN_THK \/ thickness > MAX_THK
    /\ pc' = "exit"
    /\ UNCHANGED <<thickness, INS_THK, mainVars, pdfVars>>

\* lines 62-64, thickness accepted
AcceptThickness ==
    /\ pc = "cli"
    /\ ~(thickness < MIN_THK \/ thickness > MAX_THK)
    /\ INS_THK' = thickness
    /\ pc' = "main"
    /\ UNCHANGED <<thickness, mainVars, pdfVars>>

\* main, lines 142-145: no document found, sys.exit(1)
NoPdfs ==
    /\ pc = "main"
    /\ pdfs' = <<>>
    /\ pc' = "exit"
    /\ UNCHANGED <<thickness, INS_THK, n, all_str, all_fits, all_sum, pdfVars>>

\* main, lines 142-146: the documents found, the run's sums cleared
FindPdfs ==
    /\ pc = "main"
    /\ \E ps \in (Runs \cup ScanRuns) \ {<<>>} : pdfs' = ps
    /\ n' = 1
    /\ all_str' = <<>> /\ all_fits' = NoFits /\ all_sum' = SumZero
    /\ pc' = "for_pdf"
    /\ UNCHANGED <<thickness, INS_THK, pdfVars>>

\* process_pdf, lines 98-101: text read, accumulators cleared, cut list parsed
OpenPdf ==
    /\ pc = "for_pdf"
    /\ n <= Len(pdfs)
    /\ txt' = pdfs[n]
    /\ straights' = <<>>
    /\ total_clad' = QZero /\ bond_len' = QZero /\ bead_sum' = QZero
    /\ cuts' = parse_cuts(pdfs[n]) /\ ci' = 1
    /\ fits' = NoFits
    /\ lines' = <<>> /\ li' = 0 /\ items' = <<>> /\ fi' = 0
    /\ pc' = "straights"
    /\ UNCHANGED <<thickness, INS_THK, mainVars>>

\* process_pdf, lines 101-109: one pass of the straights loop
StraightStep ==
    /\ pc = "straights"
    /\ ci <= Len(cuts)
    /\ LET a == AddStraight(Acc, cuts[ci]) IN
         /\ total_clad' = a.total_clad
         /\ bond_len' = a.bond_len
         /\ bead_sum' = a.bead_sum
    /\ straights' = Append(straights, StraightRow(n, cuts[ci]))
    /\ ci' = ci + 1
    /\ UNCHANGED <<pc, thickness, INS_THK, mainVars, txt, cuts, fits, lines, li,
                   items, fi>>

\* process_pdf, lines 111-112 and parse_fittings, lines 75-76: the straights
\* loop is over, parse_fittings starts on the text's lines
BeginScan ==
    /\ pc = "straights"
    /\ ci > Len(cuts)
    /\ fits' = NoFits
    /\ lines' = Splitlines(txt) /\ li' = 1 /\ items' = <<>>
    /\ pc' = "scan"
    /\ UNCHANGED <<thickness, INS_THK, mainVars, txt, cuts, ci, straights,
                   total_clad, bond_len, bead_sum, fi>>

\* parse_fittings, lines 76-93: one line scanned without an exception
ScanLine ==
    /\ pc = "scan"
    /\ li <= Len(lines)
    /\ ~ScanOne(lines[li]).raised
    /\ items' = items \o ScanOne(lines[li]).new
    /\ li' = li + 1
    /\ UNCHANGED <<pc, thickness, INS_THK, mainVars, txt, cuts, ci, straights,
                   fits, total_clad, bond_len, bead_sum, lines, fi>>

\* parse_fittings, lines 79, 81, 88, 90, 93: re.search found no number and
\* .group raises AttributeError, which nothing catches: the program ends
ScanRaises ==
    /\ pc = "scan"
    /\ li <= Len(lines)
    /\ ScanOne(lines[li]).raised
    /\ pc' = "raised"
    /\ UNCHANGED <<thickness, INS_THK, mainVars, pdfVars>>

\* parse_fittings returns (line 94); the fittings loop starts (line 112)
EndScan ==
    /\ pc = "scan"
    /\ li > Len(lines)
    /\ fi' = 1
    /\ pc' = "fittings"
    /\ UNCHANGED <<thickness, INS_THK, mainVars, txt, cuts, ci, straights, fits,
                   total_clad, bond_len, bead_sum, lines, li, items>>

\* process_pdf, lines 112-130: one pass of the fittings loop
FittingStep ==
    /\ pc = "fittings"
    /\ fi <= Len(items)
    /\ LET a == AddFitting(Acc, items[fi]) IN
         /\ total_clad' = a.total_clad
         /\ bond_len' = a.bond_len
         /\ bead_sum' = a.bead_sum
    /\ fits' = [fits EXCEPT ![items[fi][1]] = Append(@, FittingRow(n, items[fi]))]
    /\ fi' = fi + 1
    /\ UNCHANGED <<pc, thickness, INS_THK, mainVars, txt, cuts, ci, straights,
                   lines, li, items>>

\* process_pdf, lines 131-138, and main, lines 148-151: the document's
\* summary is computed and added to the run's
ClosePdf ==
    /\ pc = "fittings"
    /\ fi > Len(items)
    /\ all_str' = all_str \o straights
    /\ all_fits' = [k \in Keys |-> all_fits[k] \o fits[k]]
    /\ all_sum' = AddSummary(all_sum, Summary(Acc))
    /\ n' = n + 1
    /\ pc' = "for_pdf"
    /\ UNCHANGED <<thickness, INS_THK, pdfs, pdfVars>>

\* main, line 147: no document left; the sums go to the report (line 152 on)
Report ==
    /\ pc = "for_pdf"
    /\ n > Len(pdfs)
    /\ pc' = "report"
    /\ UNCHANGED <<thickness, INS_THK, mainVars, pdfVars>>

Next ==
    \/ RejectThickness
    \/ AcceptThickness
    \/ NoPdfs
    \/ FindPdfs
    \/ OpenPdf
    \/ StraightStep
    \/ BeginScan
    \/ ScanLine
    \/ ScanRaises
    \/ EndScan
    \/ FittingStep
    \/ ClosePdf
    \/ Report

Spec == Init /\ [][Next]_vars

(* ------------------- the run as a function of its input ---------------- *)
\* parse_fittings(txt) when no line raises: the items of the lines, in order
RECURSIVE ItemsOf(_)
ItemsOf(ls) ==
    IF ls = <<>> THEN <<>> ELSE ScanOne(Head(ls)).new \o ItemsOf(Tail(ls))
parse_fittings(t) == ItemsOf(Splitlines(t))

\* The components of a document in the order process_pdf handles them: the
\* cuts, tagged "Straight", then the fittings.
Components(cs, its) ==
    [i \in 1..Len(cs) |-> <<"Straight", cs[i][1], cs[i][2]>>] \o its

AddComponent(acc, c) ==
    IF c[1] = "Straight" THEN AddStraight(acc, <<c[2], c[3]>>)
    ELSE AddFitting(acc, c)

\* the two loops of process_pdf over a sequence of components
RECURSIVE Accumulate(_, _)
Accumulate(acc, cs) ==
    IF cs = <<>> THEN acc
    ELSE Accumulate(AddComponent(acc, Head(cs)), Tail(cs))

\* the accumulators process_pdf ends with on the text t
process_pdf(t) == Accumulate(AccZero, Components(parse_cuts(t), parse_fittings(t)))

\* main's loop over the documents: the run's summary
RECURSIVE RunSummary(_)
RunSummary(ps) ==
    IF ps = <<>> THEN SumZero
    ELSE AddSummary(RunSummary(SubSeq(ps, 1, Len(ps) - 1)),
                    Summary(process_pdf(ps[Len(ps)])))

(* ------------------------------ properties ----------------------------- *)
QSub(a, b) == [u |-> a.u - b.u, p |-> a.p - b.p]
\* u/100 + p*pi/40000 >= 0; p*pi is irrational unless p = 0
QNonNeg(d) ==
    IF d.p >= 0 THEN 400 * d.u + FloorPi(d.p) >= 0
    ELSE 400 * d.u >= FloorPi(-d.p) + 1
QGeq(a, b) == QNonNeg(QSub(a, b))
QLess(a, b) == ~QGeq(a, b)

\* the cues as the specification words them
word_tee == <<"t", "e", "e">>
word_reducer == <<"r", "e", "d", "u", "c", "e", "r">>
ElbowCue(ln) ==
    /\ Contains(cue_elbow, Lower(ln))
    /\ Contains(cue_45, Lower(ln)) \/ Contains(cue_90, Lower(ln))
TeeCue(ln) == Contains(word_tee, Lower(ln))
ReducerCue(ln) == Contains(word_reducer, Lower(ln))
EndCapCue(ln) ==
    Contains(cue_flange, Lower(ln)) \/ Contains(cue_valve, Lower(ln))
OletCue(ln) ==
    Contains(cue_weldolet, Lower(ln)) \/ Contains(cue_threadolet, Lower(ln))
ClampCue(ln) == Contains(cue_clamp, Lower(ln))
AnyCue(ln) ==
    ElbowCue(ln) \/ TeeCue(ln) \/ EndCapCue(ln) \/ OletCue(ln) \/ ClampCue(ln)

\* the fitting scan is about to take the line Scanned
Scanning == pc = "scan" /\ li <= Len(lines)
Scanned == lines[li]
\* the fitting scan went past the line without raising, emitting new
Emits(new) == pc' = "scan" /\ li' = li + 1 /\ items' = items \o new
\* the line the fitting scan took last
JustScanned == pc = "scan" /\ li > 1
Last == lines[li - 1]

\* the fittings loop is about to process the item Fitting
Processing == pc = "fittings" /\ fi <= Len(items)
Fitting == items[fi]

\* C1: a line with a recognised cue and no 2-3-digit number is skipped: the
\* scan emits nothing for it, does not raise, and goes on to the next line.
C1_CueWithoutNumberSkipped ==
    [][(Scanning /\ AnyCue(Scanned) /\ FindAll(Scanned) = <<>>)
          => Emits(<<>>)]_vars

\* the exact bead length of a run: the sum over its documents
RECURSIVE RunBead(_)
RunBead(ps) ==
    IF ps = <<>> THEN QZero
    ELSE QAdd(RunBead(Tail(ps)), process_pdf(Head(ps)).bead_sum)

\* C2: in the run summary, Tubes * 6 >= B and, when Tubes > 0,
\* (Tubes - 1) * 6 < B, for B the run's total bead length.
C2_TubesIsCeilOfRunTotal ==
    pc = "report" =>
        LET T == all_sum.Tubes
            B == RunBead(pdfs)
        IN /\ QGeq(QMetres(T * TUBE_COVER_M), B)
           /\ T > 0 => QLess(QMetres((T - 1) * TUBE_COVER_M), B)

\* twice arc_bead = (angle/360) * circumference
TwoArcBead(angle, dn) == [u |-> 0, p |-> (2 * angle * circ_m(dn).p) \div 360]

\* C3: an elbow adds exactly 2 * arc_bead to the bead length, and the same
\* amount to the bond length.
C3_ElbowBeadEqualsBond ==
    [][(Processing /\ Fitting[1] \in {"Elbow45", "Elbow90"})
          => /\ bead_sum' = QAdd(bead_sum,
                                TwoArcBead(ElbowAngle(Fitting[1]), Fitting[2]))
             /\ QSub(bond_len', bond_len) = QSub(bead_sum', bead_sum)]_vars

Permute(seq, f) == [i \in 1..Len(seq) |-> seq[f[i]]]

\* C4: the totals do not depend on the order of the components of a document,
\* nor on the order of the documents of the run.
C4_OrderIndependent ==
    /\ (pc = "fittings" /\ fi > Len(items)) =>
          \A f \in Permutations(1..(Len(cuts) + Len(items))) :
             Accumulate(AccZero, Permute(Components(cuts, items), f)) = Acc
    /\ pc = "report" =>
          \A f \in Permutations(1..Len(pdfs)) :
             RunSummary(Permute(pdfs, f)) = all_sum

\* a run of two different documents is reported, one of them with several
\* different components
C4_Witness ==
    /\ pc = "report"
    /\ Len(pdfs) >= 2
    /\ pdfs[1] # pdfs[2]
    /\ Len(cuts) + Len(items) >= 2
    /\ \E i, j \in 1..Len(items) : items[i] # items[j]
    /\ all_sum.Bead_m > 0

\* C5: a line with the cue "tee" that the elbow rule does not claim emits one
\* Tee: header and branch are its first two numbers when it has two or more,
\* and both are its number when it has exactly one.
C5_TeeLine ==
    [][(Scanning /\ TeeCue(Scanned) /\ ~ElbowCue(Scanned)
                 /\ Len(FindAll(Scanned)) >= 1)
          => LET dns == FindAll(Scanned)
                 hdr == dns[1]
                 br == IF Len(dns) >= 2 THEN dns[2] ELSE dns[1]
             IN Emits(<< <<IF hdr = br THEN "EqualTee" ELSE "UnequalTee",
                           hdr, br>> >>)]_vars

ClaimedAboveOlet(ln) ==
    ElbowCue(ln) \/ TeeCue(ln) \/ ReducerCue(ln) \/ EndCapCue(ln)

\* C7: a weldolet/threadolet line that no higher rule claims, with first
\* number DN, emits Collar{DN} when DN < 250 and nothing when DN >= 250; no
\* Collar of DN >= 250 is ever among the items.
C7_CollarThreshold ==
    [][/\ (Scanning /\ OletCue(Scanned) /\ ~ClaimedAboveOlet(Scanned)
                    /\ FindAll(Scanned) # <<>>)
          => IF FindAll(Scanned)[1] < 250
             THEN Emits(<< <<"Collar", FindAll(Scanned)[1]>> >>)
             ELSE Emits(<<>>)
       /\ \A i \in DOMAIN items' :
             items'[i][1] = "Collar" => items'[i][2] < 250]_vars

\* a weldolet line of DN 250 was scanned after one of DN < 250: one Collar
C7_Witness ==
    /\ JustScanned /\ li = 3
    /\ OletCue(Last) /\ ~ClaimedAboveOlet(Last)
    /\ FindAll(Last) # <<>> /\ FindAll(Last)[1] = 250
    /\ items = << <<"Collar", 200>> >>

\* one component was processed by this step
ComponentStep ==
    \/ pc = "straights" /\ ci' = ci + 1
    \/ pc = "fittings" /\ fi' = fi + 1

\* C8: no processed component lowers the bead or the bond accumulator.
C8_Monotone ==
    [][ComponentStep => /\ QGeq(bead_sum', bead_sum)
                        /\ QGeq(bond_len', bond_len)]_vars

\* a straight and two fittings were processed, the last a clamp cover that
\* left both accumulators where they were, above zero
C8_Witness ==
    /\ pc = "fittings" /\ fi = 3 /\ Len(straights) = 1
    /\ items[2][1] = "ClampCover"
    /\ QGeq(bead_sum, QMetres(1)) /\ QGeq(bond_len, QMetres(1))
    /\ bead_sum # bond_len

\* C9: a clamp cover leaves the three accumulators as they are; it only adds
\* one row with the clamp rate to the clamp covers.
C9_ClampFrame ==
    [][(Processing /\ Fitting[1] = "ClampCover")
          => /\ bead_sum' = bead_sum
             /\ bond_len' = bond_len
             /\ total_clad' = total_clad
             /\ fits' = [fits EXCEPT
                           !["ClampCover"] =
                               Append(@, [PDF |-> n, DN |-> Fitting[2],
                                          Clamp |-> RATE_CLAMP])]
             /\ UNCHANGED <<straights, all_str, all_fits, all_sum, items>>]_vars

\* a clamp cover was processed after components that gave the accumulators
\* a value
C9_Witness ==
    /\ pc = "fittings" /\ fi > 1
    /\ items[fi - 1][1] = "ClampCover"
    /\ Len(fits["ClampCover"]) = 1
    /\ bond_len # QZero /\ bead_sum # QZero /\ total_clad # QZero

\* C10: a line with "elbow" and "45" or "90" emits one Elbow, of angle 90
\* when the line contains "90" and of angle 45 otherwise.
C10_ElbowAngle ==
    [][(Scanning /\ ElbowCue(Scanned))
          => Emits(<< <<IF Contains(cue_90, Lower(Scanned)) THEN "Elbow90"
                        ELSE "Elbow45", FindAll(Scanned)[1]>> >>)]_vars

====
